---------------------------- MODULE Spec2Model ----------------------------
(***************************************************************************)
(* A model of quantum_loop_enforcer.py: the three rule-checking decorators *)
(* (reversible, no_information_deletion, no_control_flow_divergence), the  *)
(* QuantumSafeFunction wrapper and the QuantumLoop builder.                *)
(*                                                                         *)
(* Function objects live in a heap (funcs); a reference to a function is   *)
(* its index in the heap.  A decorator that builds a closure appends a new *)
(* object; no_control_flow_divergence returns the reference it was given.  *)
(* Decorators are stacked as the @ syntax stacks them: each is applied to  *)
(* the function the previous one produced (the last object of the heap).   *)
(* Every object stays callable (functools.wraps keeps __wrapped__).        *)
(***************************************************************************)
EXTENDS Integers, Sequences, FiniteSets, TLC

\* ------------------------------------------------------------------ bounds
MaxInput == 1
MaxWrappers == 2
MaxIter == 3
MaxGates == 3

Inputs == 0..MaxInput

\* Two threads that call the same wrapper.
Threads == {"t1", "t2"}

\* ------------------------------------------------------------------ values
\* Python values a wrapped function may produce, tagged with their type.
None == [t |-> "NoneType", v |-> 0]
IntV(n) == [t |-> "int", v |-> n]
BoolV(b) == [t |-> "bool", v |-> IF b THEN 1 ELSE 0]
EmptyStr == [t |-> "str", v |-> 0]

\* The values the enumerated raw functions draw their results from: the
\* absent value, and three present ones that are all falsy, two of them
\* (0 and False) equal as dict keys.
Values == {None, IntV(0), BoolV(FALSE), EmptyStr}

\* The key a value has in a dict: bool is a subclass of int, False == 0 and
\* hash(False) == hash(0), so both select the same entry.
DictKey(y) == IF y.t = "bool" THEN IntV(y.v) ELSE y

\* x ^ 1 on non-negative integers.
reversible_increment == [x \in Inputs |-> IntV(IF x % 2 = 0 THEN x + 1 ELSE x - 1)]

\* ------------------------------------------------------------ name tables
\* co_names of the two closures, as the compiler produces them: the globals
\* and attributes each body references (func and seen_outputs are free
\* variables, x, y and result are locals: none of them is in co_names).
ReversibleWrapperNames == {"IrreversibleFunctionError", "__name__"}
NoInformationDeletionWrapperNames == {"InformationDeletionError", "__name__"}

\* The forbidden set with one keyword left out.
forbiddenWithoutContinue == {"if", "while", "break"}

forbidden == {"if", "while", "break", "continue"}

\* Name tables of the raw functions handed to the decorators.
CoNameSets ==
    {{}, {"print"}, {"if"}, {"while"}, {"break"}, {"continue"}, {"print", "while"}}

\* The raw functions handed to the decorators: every table over the inputs
\* with an empty name table, and x ^ 1 with each name table.
RawFunctions ==
    {[table |-> t, co_names |-> {}] : t \in [Inputs -> Values]}
        \cup {[table |-> reversible_increment, co_names |-> n] : n \in CoNameSets}

EmptyDict == [k \in {} |-> 0]
NoTable == [x \in {} |-> None]

VARIABLES
    funcs,        \* heap of function objects
    hist,         \* per reversible wrapper: inputs it was called with / returned for
    cf_passed,    \* references no_control_flow_divergence returned at import
    last,         \* the last operation and its outcome
    safe_func,    \* main's safe_func: <<>> or one QuantumSafeFunction
    qloop,        \* main's qloop: <<>> or one QuantumLoop
    gates,        \* Gate objects made by to_gate
    circuit,      \* main's circuit: <<>> or what build_circuit returned
    serialized,   \* whether callers serialize access to the wrapper
    pc, tx, ty    \* per thread: its position in wrapper, its locals x and y

vars == <<funcs, hist, cf_passed, last, safe_func, qloop, gates, circuit,
          serialized, pc, tx, ty>>

\* -------------------------------------------------------- function objects
RawObject(f) ==
    [kind |-> "raw", wrapped |-> 0, table |-> f.table, co_names |-> f.co_names,
     seen_outputs |-> EmptyDict]

\* reversible(func): a fresh closure over func with an empty ledger.
ReversibleObject(i) ==
    [kind |-> "reversible", wrapped |-> i, table |-> NoTable,
     co_names |-> ReversibleWrapperNames, seen_outputs |-> EmptyDict]

\* no_information_deletion(func): a fresh closure over func.
NoInformationDeletionObject(i) ==
    [kind |-> "no_information_deletion", wrapped |-> i, table |-> NoTable,
     co_names |-> NoInformationDeletionWrapperNames, seen_outputs |-> EmptyDict]

\* ---------------------------------------------------------------- outcomes
Return(v) == [kind |-> "return", exc |-> "", value |-> v]
Raise(e) == [kind |-> "raise", exc |-> e, value |-> None]

\* `y in seen_outputs`
InSeenOutputs(d, y) == DictKey(y) \in DOMAIN d

\* The comparison written the wrong way round: `seen_outputs[y] == x`.
MapsToOtherInverted(d, y, x) == d[DictKey(y)] = x

\* `seen_outputs[y] != x`
MapsToOther(d, y, x) == d[DictKey(y)] # x

\* The test without its second half: `y in seen_outputs`.
CollidesWithAnySeen(d, y, x) == DictKey(y) \in DOMAIN d

\* `y in seen_outputs and seen_outputs[y] != x`
Collides(d, y, x) == InSeenOutputs(d, y) /\ MapsToOther(d, y, x)

\* The store left out.
StoreNothing(d, y, x) == d

\* `seen_outputs[y] = x`
Store(d, y, x) ==
    [k \in DOMAIN d \cup {DictKey(y)} |-> IF k = DictKey(y) THEN x ELSE d[k]]

\* The test written as `not result`: None, 0, False and "" are all falsy.
IsFalsy(result) == result.t = "NoneType" \/ result.v = 0

\* `result is None`
IsNone(result) == result = None

\* The store moved before the test: the ledger is written even when the
\* call raises.
ReversibleBodyStoreFirst(h, i, x, y) ==
    IF Collides(h[i].seen_outputs, y, x)
    THEN [heap |-> [h EXCEPT ![i].seen_outputs = Store(@, y, x)],
          out |-> Raise("IrreversibleFunctionError")]
    ELSE [heap |-> [h EXCEPT ![i].seen_outputs = Store(@, y, x)],
          out |-> Return(y)]

\* The body of reversible's wrapper after y = func(x) has returned y, on
\* heap h for the wrapper at i.
ReversibleBody(h, i, x, y) ==
    IF Collides(h[i].seen_outputs, y, x)
    THEN [heap |-> h, out |-> Raise("IrreversibleFunctionError")]
    ELSE [heap |-> [h EXCEPT ![i].seen_outputs = Store(@, y, x)],
          out |-> Return(y)]

\* The wrapper without its test: the result is returned as it is.
NoInformationDeletionBodyNoCheck(h, result) ==
    [heap |-> h, out |-> Return(result)]

\* The body of no_information_deletion's wrapper after result = func(...).
NoInformationDeletionBody(h, result) ==
    IF IsNone(result)
    THEN [heap |-> h, out |-> Raise("InformationDeletionError")]
    ELSE [heap |-> h, out |-> Return(result)]

\* Calling the function object at i with x on heap h: the outcome, the heap
\* afterwards and (ran, ok) the objects that were entered and those that
\* returned normally.  Each wrapper calls the function it wraps first, and
\* an exception of the wrapped function propagates.
RECURSIVE Invoke(_, _, _)
Invoke(h, i, x) ==
    IF h[i].kind = "raw"
    THEN [heap |-> h, out |-> Return(h[i].table[x]), ran |-> {i}, ok |-> {i}]
    ELSE LET r == Invoke(h, h[i].wrapped, x)
             b == IF h[i].kind = "reversible"
                  THEN ReversibleBody(r.heap, i, x, r.out.value)
                  ELSE NoInformationDeletionBody(r.heap, r.out.value)
         IN  IF r.out.kind = "raise"
             THEN [r EXCEPT !.ran = @ \cup {i}]
             ELSE [heap |-> b.heap, out |-> b.out, ran |-> r.ran \cup {i},
                   ok |-> IF b.out.kind = "return" THEN r.ok \cup {i} ELSE r.ok]

NoHist == [invoked |-> {}, returned |-> {}]

\* The history after the call with result r: every reversibility wrapper the
\* call entered has been invoked with x, and has returned for x if it did.
Record(h, x, r) ==
    [j \in DOMAIN hist |->
        IF j \in r.ran /\ h[j].kind = "reversible"
        THEN [invoked |-> hist[j].invoked \cup {x},
              returned |-> hist[j].returned \cup (IF j \in r.ok THEN {x} ELSE {})]
        ELSE hist[j]]

Op(op, arg, x, out, ref) ==
    [op |-> op, arg |-> arg, x |-> x, kind |-> out.kind, exc |-> out.exc,
     value |-> out.value, ref |-> ref]

NoOp == Op("none", 0, 0, Return(None), 0)

\* ------------------------------------------------------------------- Init
InitObjects ==
    /\ safe_func = <<>>
    /\ qloop = <<>>
    /\ gates = <<>>
    /\ circuit = <<>>

InitThreads ==
    /\ serialized = TRUE
    /\ pc = [t \in Threads |-> "idle"]
    /\ tx = [t \in Threads |-> 0]
    /\ ty = [t \in Threads |-> None]

\* After `def f`: one raw function object.
Init ==
    /\ \E f \in RawFunctions : funcs = <<RawObject(f)>>
    /\ hist = <<NoHist>>
    /\ cf_passed = {}
    /\ last = NoOp
    /\ InitObjects
    /\ InitThreads

\* ------------------------------------------------------------- decorators
objs == <<safe_func, qloop, gates, circuit>>
threads == <<serialized, pc, tx, ty>>

\* reversible(func)
reversible(i) ==
    /\ Len(funcs) < 1 + MaxWrappers
    /\ funcs' = Append(funcs, ReversibleObject(i))
    /\ hist' = Append(hist, NoHist)
    /\ last' = Op("reversible", i, 0, Return(None), Len(funcs) + 1)
    /\ UNCHANGED <<cf_passed, objs, threads>>

\* no_information_deletion(func)
no_information_deletion(i) ==
    /\ Len(funcs) < 1 + MaxWrappers
    /\ funcs' = Append(funcs, NoInformationDeletionObject(i))
    /\ hist' = Append(hist, NoHist)
    /\ last' = Op("no_information_deletion", i, 0, Return(None), Len(funcs) + 1)
    /\ UNCHANGED <<cf_passed, objs, threads>>

\* The loop `for name in forbidden: if name in source: raise`.
HasForbiddenName(source) == \E name \in forbidden : name \in source

\* no_control_flow_divergence(func): reads func.__code__.co_names, raises or
\* returns func itself; it leaves no mark on the function.
no_control_flow_divergence(i) ==
    /\ IF HasForbiddenName(funcs[i].co_names)
       THEN last' = Op("no_control_flow_divergence", i, 0,
                       Raise("ControlFlowDivergenceError"), 0)
       ELSE last' = Op("no_control_flow_divergence", i, 0, Return(None), i)
    /\ UNCHANGED <<funcs, hist, cf_passed, objs, threads>>

\* A call g(x) of the function object at i.
Call(i, x) ==
    LET r == Invoke(funcs, i, x)
    IN  /\ funcs' = r.heap
        /\ hist' = Record(funcs, x, r)
        /\ last' = Op("call", i, x, r.out, 0)
        /\ UNCHANGED <<cf_passed, objs, threads>>

Next ==
    \/ reversible(Len(funcs))
    \/ no_information_deletion(Len(funcs))
    \/ no_control_flow_divergence(Len(funcs))
    \/ \E i \in DOMAIN funcs, x \in Inputs : Call(i, x)

Spec == Init /\ [][Next]_vars

\* ------------------------------------------------- QuantumSafeFunction
decorated == <<funcs, hist, cf_passed>>

\* safe_func = QuantumSafeFunction(func): the object stores func.
QuantumSafeFunction(i) ==
    /\ safe_func' = <<[func |-> i]>>
    /\ last' = Op("QuantumSafeFunction", i, 0, Return(None), 0)
    /\ UNCHANGED <<decorated, qloop, gates, circuit, threads>>

\* safe_func.evaluate(x): self.func(x)
evaluate(x) ==
    LET r == Invoke(funcs, safe_func[1].func, x)
    IN  /\ safe_func # <<>>
        /\ funcs' = r.heap
        /\ hist' = Record(funcs, x, r)
        /\ last' = Op("evaluate", safe_func[1].func, x, r.out, 0)
        /\ UNCHANGED <<cf_passed, objs, threads>>

\* The gate to_gate builds: a two-qubit circuit named `name` holding one
\* cx(0, 1), converted to a gate.  It does not read self.func.
Gate(name) ==
    [name |-> name, num_qubits |-> 2,
     definition |-> <<[operation |-> "cx", qargs |-> <<0, 1>>]>>]

\* safe_func.to_gate(): a new Gate object; its reference is its index in
\* gates.
to_gate ==
    /\ safe_func # <<>>
    /\ Len(gates) < MaxGates
    /\ gates' = Append(gates, Gate("U_f"))
    /\ last' = Op("to_gate", 0, 0, Return(None), Len(gates) + 1)
    /\ UNCHANGED <<decorated, safe_func, qloop, circuit, threads>>

\* ------------------------------------------------------------ QuantumLoop
\* qloop = QuantumLoop(iterations, safe_func): ValueError unless
\* iterations > 0, and then qloop keeps what it held.
QuantumLoop(iterations) ==
    /\ safe_func # <<>>
    /\ IF iterations <= 0
       THEN /\ last' = Op("QuantumLoop", 0, iterations, Raise("ValueError"), 0)
            /\ UNCHANGED qloop
       ELSE /\ qloop' = <<[iterations |-> iterations, body |-> safe_func[1]]>>
            /\ last' = Op("QuantumLoop", 0, iterations, Return(None), 0)
    /\ UNCHANGED <<decorated, safe_func, gates, circuit, threads>>

\* to_gate called inside the loop: a new gate object for every iteration.
AppendFreshGates(g, iterations) ==
    [k \in 1..iterations |-> [operation |-> g + k - 1, qargs |-> <<0, 1>>]]

\* `for _ in range(self.iterations): qc.append(gate, [0, 1])` for the gate
\* with reference g: the circuit's data.
AppendGates(g, iterations) ==
    [k \in 1..iterations |-> [operation |-> g, qargs |-> <<0, 1>>]]

\* circuit = qloop.build_circuit(): one to_gate call on the body, then the
\* appends.
build_circuit ==
    LET gate == Len(gates) + 1
    IN  /\ qloop # <<>>
        /\ Len(gates) < MaxGates
        /\ gates' = Append(gates, Gate("U_f"))
        /\ circuit' = <<[num_qubits |-> 2,
                         data |-> AppendGates(gate, qloop[1].iterations)]>>
        /\ last' = Op("build_circuit", 0, qloop[1].iterations, Return(None), gate)
        /\ UNCHANGED <<decorated, safe_func, qloop, threads>>

\* After the module is imported: reversible_increment has been defined and
\* decorated (reversible, then no_information_deletion, then
\* no_control_flow_divergence, which returned the function it was given).
InitMain ==
    /\ funcs = <<RawObject([table |-> reversible_increment, co_names |-> {}]),
                 ReversibleObject(1),
                 NoInformationDeletionObject(2)>>
    /\ hist = <<NoHist, NoHist, NoHist>>
    /\ cf_passed = IF HasForbiddenName(NoInformationDeletionWrapperNames)
                   THEN {} ELSE {3}
    /\ last = NoOp
    /\ InitObjects
    /\ InitThreads

IterationCounts == (-1)..MaxIter

\* What main and any other caller may do with the two classes.
NextMain ==
    \/ \E i \in DOMAIN funcs : QuantumSafeFunction(i)
    \/ \E x \in Inputs : evaluate(x)
    \/ to_gate
    \/ \E n \in IterationCounts : QuantumLoop(n)
    \/ build_circuit

SpecMain == InitMain /\ [][NextMain]_vars

\* ------------------------------------------------ concurrent callers
\* Threads call the reversibility wrapper at funcs[2].  The interpreter may
\* switch threads between any two bytecodes of wrapper: after y = func(x),
\* after the membership test, after the comparison, and the store is one
\* step.  With serialized, a caller enters only when no other is inside.
w == 2

\* wrapper is entered with x; y = func(x).
Enter(t, x) ==
    /\ pc[t] = "idle"
    /\ serialized => \A u \in Threads : pc[u] = "idle"
    /\ pc' = [pc EXCEPT ![t] = "in"]
    /\ tx' = [tx EXCEPT ![t] = x]
    /\ ty' = [ty EXCEPT ![t] = funcs[funcs[w].wrapped].table[x]]
    /\ hist' = [hist EXCEPT ![w].invoked = @ \cup {x}]
    /\ UNCHANGED <<funcs, cf_passed, last, objs, serialized>>

\* `y in seen_outputs`: when false, `and` skips the comparison.
TestIn(t) ==
    /\ pc[t] = "in"
    /\ pc' = [pc EXCEPT ![t] =
                 IF InSeenOutputs(funcs[w].seen_outputs, ty[t]) THEN "ne" ELSE "store"]
    /\ UNCHANGED <<funcs, hist, cf_passed, last, objs, serialized, tx, ty>>

\* `seen_outputs[y] != x`, and the raise when it is true.
TestNe(t) ==
    /\ pc[t] = "ne"
    /\ IF MapsToOther(funcs[w].seen_outputs, ty[t], tx[t])
       THEN /\ pc' = [pc EXCEPT ![t] = "idle"]
            /\ last' = Op("call", w, tx[t], Raise("IrreversibleFunctionError"), 0)
       ELSE /\ pc' = [pc EXCEPT ![t] = "store"]
            /\ UNCHANGED last
    /\ UNCHANGED <<funcs, hist, cf_passed, objs, serialized, tx, ty>>

\* `seen_outputs[y] = x; return y`
StoreAndReturn(t) ==
    /\ pc[t] = "store"
    /\ funcs' = [funcs EXCEPT ![w].seen_outputs = Store(@, ty[t], tx[t])]
    /\ hist' = [hist EXCEPT ![w].returned = @ \cup {tx[t]}]
    /\ last' = Op("call", w, tx[t], Return(ty[t]), 0)
    /\ pc' = [pc EXCEPT ![t] = "idle"]
    /\ UNCHANGED <<cf_passed, objs, serialized, tx, ty>>

\* After g = reversible(f) for a raw function f; the callers either
\* serialize their calls of g or do not.
InitConc ==
    /\ \E f \in RawFunctions : funcs = <<RawObject(f), ReversibleObject(1)>>
    /\ hist = <<NoHist, NoHist>>
    /\ cf_passed = {}
    /\ last = NoOp
    /\ InitObjects
    /\ serialized \in BOOLEAN
    /\ pc = [t \in Threads |-> "idle"]
    /\ tx = [t \in Threads |-> 0]
    /\ ty = [t \in Threads |-> None]

NextConc ==
    \/ \E t \in Threads, x \in Inputs : Enter(t, x)
    \/ \E t \in Threads : TestIn(t)
    \/ \E t \in Threads : TestNe(t)
    \/ \E t \in Threads : StoreAndReturn(t)

SpecConc == InitConc /\ [][NextConc]_vars

\* ================================================================== claims
\* The object at i is a reversibility wrapper directly around a raw
\* (deterministic) function, and f is that function's table.
ReversibleOverRaw(i) ==
    /\ i \in DOMAIN funcs
    /\ funcs[i].kind = "reversible"
    /\ funcs[funcs[i].wrapped].kind = "raw"

NoInformationDeletionOverRaw(i) ==
    /\ i \in DOMAIN funcs
    /\ funcs[i].kind = "no_information_deletion"
    /\ funcs[funcs[i].wrapped].kind = "raw"

WrappedTable(i) == funcs[funcs[i].wrapped].table

\* f(x1) == f(x2) as Python compares the two results.
SameOutput(t, x1, x2) == DictKey(t[x1]) = DictKey(t[x2])

\* C1: on a reversibility wrapper around a deterministic f, a call with an
\* input x that was never evaluated before, made after some call with another
\* input x1 # x for which f(x1) = f(x), raises IrreversibleFunctionError,
\* whatever other calls were made before or in between.
C1_SecondCollidingInputRaises ==
    [][\A i \in DOMAIN funcs, x \in Inputs :
          (/\ ReversibleOverRaw(i)
           /\ last'.op = "call" /\ last'.arg = i /\ last'.x = x
           /\ x \notin hist[i].invoked
           /\ \E x1 \in hist[i].invoked :
                 x1 # x /\ SameOutput(WrappedTable(i), x1, x))
          => (last'.kind = "raise" /\ last'.exc = "IrreversibleFunctionError")]_vars

\* A call of x has just raised IrreversibleFunctionError because another
\* input, which returned earlier, has the same output.
C1_Witness ==
    /\ last.op = "call" /\ ReversibleOverRaw(last.arg)
    /\ last.exc = "IrreversibleFunctionError"
    /\ last.x \notin hist[last.arg].returned
    /\ \E x1 \in hist[last.arg].returned :
          x1 # last.x /\ SameOutput(WrappedTable(last.arg), x1, last.x)

\* C2 as stated: a call whose input repeats any earlier call on the wrapper
\* returns f(x) and does not raise.
C2_RepeatedInputNeverRaises ==
    [][\A i \in DOMAIN funcs, x \in Inputs :
          (/\ ReversibleOverRaw(i)
           /\ last'.op = "call" /\ last'.arg = i /\ last'.x = x
           /\ x \in hist[i].invoked)
          => (last'.kind = "return" /\ last'.value = WrappedTable(i)[x])]_vars

\* C2 as amended: a call whose input x has returned normally from this
\* wrapper (before, or in this very call) returns f(x); that is, a call
\* that raises is never a repeat of a call that returned.
C2_RepeatOfReturnedInputReturns ==
    \A i \in DOMAIN funcs :
        (/\ ReversibleOverRaw(i)
         /\ last.op = "call" /\ last.arg = i
         /\ last.x \in hist[i].returned)
        => (last.kind = "return" /\ last.value = WrappedTable(i)[last.x])

\* The last call returned for x although a colliding input was rejected since
\* x first returned: a repeat of x in the middle of a sequence.
C2_Witness ==
    /\ last.op = "call" /\ ReversibleOverRaw(last.arg)
    /\ last.kind = "return"
    /\ \E x1 \in hist[last.arg].invoked \ hist[last.arg].returned :
          SameOutput(WrappedTable(last.arg), x1, last.x)

\* Every recorded output is the output of exactly one input that returned:
\* the input the ledger holds for it.
LedgerOneInputPerOutput ==
    \A i \in DOMAIN funcs :
        ReversibleOverRaw(i) =>
            \A k \in DOMAIN funcs[i].seen_outputs :
                {x \in hist[i].returned : DictKey(WrappedTable(i)[x]) = k}
                    = {funcs[i].seen_outputs[k]}

\* C3: after any sequence of calls the ledger maps each recorded output to
\* exactly one input, and a call that fails with IrreversibleFunctionError
\* leaves the ledger as it was before the call.
C3_FailedCallPreservesLedger ==
    [][/\ LedgerOneInputPerOutput'
       /\ \A i \in DOMAIN funcs :
             (/\ ReversibleOverRaw(i)
              /\ last'.op = "call" /\ last'.arg = i
              /\ last'.exc = "IrreversibleFunctionError")
             => funcs'[i].seen_outputs = funcs[i].seen_outputs]_vars

\* A call has failed on a ledger that holds another input for its output.
C3_Witness ==
    /\ last.op = "call" /\ ReversibleOverRaw(last.arg)
    /\ last.exc = "IrreversibleFunctionError"
    /\ LET d == funcs[last.arg].seen_outputs
           k == DictKey(WrappedTable(last.arg)[last.x])
       IN  k \in DOMAIN d /\ d[k] # last.x

\* C4: a function wrapped only by no_information_deletion raises
\* InformationDeletionError exactly on the calls whose result is None; every
\* other result (0, False, the empty string, ...) is returned unchanged.
C4_RaisesIffNone ==
    \A i \in DOMAIN funcs :
        (NoInformationDeletionOverRaw(i) /\ last.op = "call" /\ last.arg = i)
        => LET result == WrappedTable(i)[last.x]
           IN  IF result = None
               THEN last.kind = "raise" /\ last.exc = "InformationDeletionError"
               ELSE last.kind = "return" /\ last.value = result

\* A falsy result that is not None has been returned.
C4_Witness ==
    /\ last.op = "call" /\ NoInformationDeletionOverRaw(last.arg)
    /\ last.kind = "return"
    /\ last.value \in {IntV(0), BoolV(FALSE), EmptyStr}

\* What no_control_flow_divergence answers for the function it is given.
ControlFlowAnswer ==
    last.op = "no_control_flow_divergence" =>
        IF funcs[last.arg].co_names \cap {"if", "while", "break", "continue"} # {}
        THEN /\ last.kind = "raise" /\ last.exc = "ControlFlowDivergenceError"
             /\ last.ref = 0
        ELSE last.kind = "return" /\ last.ref = last.arg

\* C5: the control-flow check decides at decoration time from the name table
\* of the function it is given: with a forbidden name it raises
\* ControlFlowDivergenceError and yields no function, otherwise it returns
\* the same function; either way it calls nothing and builds no wrapper.
C5_DecidesAtDecorationTime ==
    [][/\ ControlFlowAnswer'
       /\ last'.op = "no_control_flow_divergence"
             => (funcs' = funcs /\ hist' = hist)]_vars

\* The check has rejected a function whose name table holds "continue".
C5_Witness ==
    /\ last.op = "no_control_flow_divergence"
    /\ last.kind = "raise"
    /\ "continue" \in funcs[last.arg].co_names

\* C8: whether the pipeline is rejected with ControlFlowDivergenceError
\* depends only on the names of the raw function's own body, wherever in the
\* stack of decorators the control-flow check is applied.
C8_RejectionDependsOnRawNames ==
    last.op = "no_control_flow_divergence" =>
        ((last.kind = "raise" /\ last.exc = "ControlFlowDivergenceError")
            <=> (funcs[1].co_names \cap {"if", "while", "break", "continue"} # {}))

\* The example's pipeline: no_information_deletion around reversible around
\* the raw function.
ExamplePipeline(i) ==
    /\ i \in DOMAIN funcs
    /\ funcs[i].kind = "no_information_deletion"
    /\ ReversibleOverRaw(funcs[i].wrapped)

\* C10 as stated: in the example's pipeline every call on which the raw
\* function returns None fails with InformationDeletionError.
C10_AbsentAlwaysInformationDeletion ==
    \A i \in DOMAIN funcs :
        (/\ ExamplePipeline(i)
         /\ last.op = "call" /\ last.arg = i
         /\ WrappedTable(funcs[i].wrapped)[last.x] = None)
        => (last.kind = "raise" /\ last.exc = "InformationDeletionError")

\* C10 as amended: such a call always fails on that call; it fails with
\* InformationDeletionError when x is the input the ledger holds for None (no
\* other input returned None to the reversibility wrapper before x did), and
\* with IrreversibleFunctionError when the ledger holds another input.
C10_AbsentFailsByLedger ==
    \A i \in DOMAIN funcs :
        (/\ ExamplePipeline(i)
         /\ last.op = "call" /\ last.arg = i
         /\ WrappedTable(funcs[i].wrapped)[last.x] = None)
        => LET d == funcs[funcs[i].wrapped].seen_outputs
           IN  /\ last.kind = "raise"
               /\ None \in DOMAIN d
               /\ last.exc = IF d[None] = last.x
                             THEN "InformationDeletionError"
                             ELSE "IrreversibleFunctionError"
               /\ last.exc = "IrreversibleFunctionError" =>
                     \E x1 \in hist[funcs[i].wrapped].invoked :
                         x1 # last.x /\ WrappedTable(funcs[i].wrapped)[x1] = None

\* A call on which the raw function returned None was reported as
\* IrreversibleFunctionError by the example's pipeline.
C10_Witness ==
    /\ last.op = "call" /\ ExamplePipeline(last.arg)
    /\ WrappedTable(funcs[last.arg].wrapped)[last.x] = None
    /\ last.exc = "IrreversibleFunctionError"


\* The function objects a call of i runs: i and everything it wraps.
RECURSIVE Chain(_)
Chain(i) == IF funcs[i].kind = "raw" THEN {i} ELSE {i} \cup Chain(funcs[i].wrapped)

\* The function at i has gone through all three checks.
PassedAllChecks(i) ==
    /\ \E j \in Chain(i) : funcs[j].kind = "reversible"
    /\ \E j \in Chain(i) : funcs[j].kind = "no_information_deletion"
    /\ Chain(i) \cap cf_passed # {}

\* C6: the body of every constructed QuantumLoop is a QuantumSafeFunction
\* whose function has passed all three checks.
C6_LoopBodyIsValidated ==
    qloop # <<>> => PassedAllChecks(qloop[1].body.func)

\* What the constructor and build_circuit have produced.
LoopsAndCircuits ==
    /\ last.op = "QuantumLoop" =>
          IF last.x <= 0
          THEN last.kind = "raise" /\ last.exc = "ValueError"
          ELSE /\ last.kind = "return"
               /\ qloop = <<[iterations |-> last.x, body |-> safe_func[1]]>>
    /\ qloop # <<>> => qloop[1].iterations > 0
    /\ last.op = "build_circuit" => Len(circuit[1].data) = qloop[1].iterations
    /\ circuit # <<>> =>
          LET data == circuit[1].data
          IN  /\ Len(data) >= 1
              /\ \A k \in DOMAIN data : data[k] = data[1]
              /\ data[1].operation \in DOMAIN gates
              /\ \A g \in DOMAIN gates : gates[g] = gates[data[1].operation]

\* C7: QuantumLoop with iterations <= 0 raises ValueError and yields no loop;
\* with iterations = N > 0, build_circuit returns exactly N units, every one
\* the same gate object, made by one to_gate call and equal to what any
\* direct to_gate call makes.
C7_LoopConstructionAndBuild ==
    [][/\ LoopsAndCircuits'
       /\ (last'.op = "QuantumLoop" /\ last'.kind = "raise") => qloop' = qloop
       /\ last'.op = "build_circuit" => Len(gates') = Len(gates) + 1]_vars

\* A circuit of several units has just been built, after a direct to_gate
\* call.
C7_Witness ==
    /\ last.op = "build_circuit"
    /\ Len(circuit[1].data) >= 2
    /\ Len(gates) >= 2

\* C9: when the calls on one wrapper are serialized, no two distinct inputs
\* with the same output have both returned normally.  (Unserialized, they
\* can: C9_Witness.)
C9_SerializedCallsCollideSafely ==
    serialized =>
        \A x1, x2 \in hist[w].returned :
            x1 # x2 => ~SameOutput(WrappedTable(w), x1, x2)

\* Without serialization, two calls with distinct inputs and the same output
\* have both returned normally, and no call has raised.
C9_Witness ==
    /\ ~serialized
    /\ hist[w].invoked = hist[w].returned
    /\ \A t \in Threads : pc[t] = "idle"
    /\ last.kind = "return"
    /\ \E x1, x2 \in hist[w].returned :
          x1 # x2 /\ SameOutput(WrappedTable(w), x1, x2)

=============================================================================
